---- MODULE Spec2Model ----
(***************************************************************************)
(* Root finders of classZeroFun.hpp: SolverBase, SolverWithInterval and    *)
(* its four interval solvers (RegulaFalsi, Bisection, Secant, Brent),      *)
(* Newton and QuasiNewton.                                                 *)
(*                                                                         *)
(* One solver object is constructed and solve() is called on it once.      *)
(* T::Real is modelled as a fixed-point number (an integer count of grid   *)
(* units; one unit is 0.01) extended with NaN and the two infinities, so   *)
(* the sentinel written by the constructor and the 0/0 of a finite         *)
(* difference with h == 0 are values of the model.  Division rounds down   *)
(* to the grid, as a floating-point division rounds to a representable     *)
(* number.                                                                 *)
(*                                                                         *)
(* The header declares bracketInterval and the solve() overrides; their    *)
(* bodies live in the translation unit, which is not among the sources.    *)
(* Those operators follow the design document (sections 4.1 - 4.8, 7, 8).  *)
(***************************************************************************)
EXTENDS Integers, Sequences, FiniteSets, TLC

VARIABLES pc, kind, args, supplied, m, br, loc, iters, result

vars == <<pc, kind, args, supplied, m, br, loc, iters, result>>

(***************************************************************************)
(* Bounds of the explored inputs.                                          *)
(***************************************************************************)
MaxX == 2        \* interval ends and initial guesses range over -MaxX..MaxX
MaxH == 2        \* bracket-search and finite-difference steps: 0..MaxH
MaxBudget == 2   \* explicit iteration budgets (maxIter_, maxIt_): 0..MaxBudget

(***************************************************************************)
(* Default arguments of the interval solvers' constructors.                *)
(***************************************************************************)
DefaultHInterval == 1     \* h_interval_ = 0.01, one grid unit
DefaultMaxIter == 200     \* maxIter_ = 200

(***************************************************************************)
(* T::Real                                                                 *)
(***************************************************************************)
Fin(n) == [t |-> "fin", v |-> n]
NaN == [t |-> "nan", v |-> 0]
Inf(s) == [t |-> "inf", v |-> s]

IsNaN(x) == x.t = "nan"
IsFin(x) == x.t = "fin"
IsInf(x) == x.t = "inf"

SignOf(n) == IF n > 0 THEN 1 ELSE IF n < 0 THEN -1 ELSE 0
AbsInt(n) == IF n < 0 THEN -n ELSE n
FloorDiv(n, d) == IF d > 0 THEN n \div d ELSE (-n) \div (-d)

Neg(x) == IF IsNaN(x) THEN NaN ELSE [x EXCEPT !.v = -x.v]

Add(x, y) ==
    IF IsNaN(x) \/ IsNaN(y) THEN NaN
    ELSE IF IsInf(x) /\ IsInf(y) THEN (IF x.v = y.v THEN x ELSE NaN)
    ELSE IF IsInf(x) THEN x
    ELSE IF IsInf(y) THEN y
    ELSE Fin(x.v + y.v)

Sub(x, y) == Add(x, Neg(y))

Mul(x, y) ==
    IF IsNaN(x) \/ IsNaN(y) THEN NaN
    ELSE IF IsInf(x) \/ IsInf(y)
         THEN (IF x.v = 0 \/ y.v = 0 THEN NaN ELSE Inf(SignOf(x.v) * SignOf(y.v)))
    ELSE Fin(x.v * y.v)

Div(x, y) ==
    IF IsNaN(x) \/ IsNaN(y) THEN NaN
    ELSE IF IsInf(x) THEN (IF IsInf(y) THEN NaN
                           ELSE Inf(x.v * (IF y.v < 0 THEN -1 ELSE 1)))
    ELSE IF IsInf(y) THEN Fin(0)
    ELSE IF y.v = 0 THEN (IF x.v = 0 THEN NaN ELSE Inf(SignOf(x.v)))
    ELSE Fin(FloorDiv(x.v, y.v))

Abs(x) == IF IsNaN(x) THEN NaN ELSE [x EXCEPT !.v = AbsInt(x.v)]

\* Every comparison with a NaN operand is false.
Lt(x, y) ==
    IF IsNaN(x) \/ IsNaN(y) THEN FALSE
    ELSE IF IsInf(x) THEN x.v < 0 /\ ~(IsInf(y) /\ y.v < 0)
    ELSE IF IsInf(y) THEN y.v > 0
    ELSE x.v < y.v

Gt(x, y) == Lt(y, x)
Eq(x, y) == ~IsNaN(x) /\ ~IsNaN(y) /\ x = y
Le(x, y) == Lt(x, y) \/ Eq(x, y)
Ge(x, y) == Le(y, x)

Zero == Fin(0)
Two == Fin(2)

\* unsigned int -> T::Real is exact (every 32-bit value is a double), and a
\* T::Real holding a whole number below 2^32 converts back to that number.
\* Every budget of the model is such a number; the member maxIter is only ever
\* written from an unsigned int, so no other value reaches ToUnsigned.
ToReal(u) == Fin(u)
ToUnsigned(x) == IF IsFin(x) /\ x.v >= 0 THEN x.v ELSE 0

(***************************************************************************)
(* T::FunType: the scalar functions handed to the solvers, with the exact  *)
(* derivative a caller of Newton supplies.                                 *)
(***************************************************************************)
Funs ==
    {[k |-> "lin", p |-> 1], [k |-> "neg", p |-> -1],
     [k |-> "sq", p |-> 4], [k |-> "sq", p |-> 0], [k |-> "sq", p |-> 2],
     [k |-> "const", p |-> 3], [k |-> "cube", p |-> 0]}

FVal(fn, n) ==
    CASE fn.k = "lin" -> n - fn.p
      [] fn.k = "neg" -> fn.p - n
      [] fn.k = "sq" -> n * n - fn.p
      [] fn.k = "const" -> fn.p
      [] fn.k = "cube" -> n * n * n

DVal(fn, n) ==
    CASE fn.k = "lin" -> 1
      [] fn.k = "neg" -> -1
      [] fn.k = "sq" -> 2 * n
      [] fn.k = "const" -> 0
      [] fn.k = "cube" -> 3 * n * n

Eval(fn, x) == IF IsFin(x) THEN Fin(FVal(fn, x.v)) ELSE NaN
EvalD(fn, x) == IF IsFin(x) THEN Fin(DVal(fn, x.v)) ELSE NaN

Half(x) == Div(x, Two)
\* Sign of a T::Real; NaN has none.
Sgn(y) == IF IsNaN(y) THEN 0 ELSE SignOf(y.v)

(***************************************************************************)
(* Bracket Finder (design 4.1): bracket(f, x1, h, maxIter) -> (lo, hi,     *)
(* found).  Probe pair k is x1 - k*h and x1 + k*h; each new probe is       *)
(* compared with the previous probe on its side, and the first pair whose  *)
(* signs differ is returned.  h == 0 fails at once, a seed that is a root  *)
(* gives the degenerate bracket (x1, x1).  After the budget is exhausted   *)
(* lo and hi are the outermost probes (the design leaves them              *)
(* unspecified).  probes, budget, seed and step record the call.           *)
(***************************************************************************)
\* Probe k of the search from seed x with step h, in grid units.
Probe(x, h, k) == x + k * h

SignChange(fn, p, q) == SignOf(FVal(fn, p)) # SignOf(FVal(fn, q))

\* Probe pair k shows a sign change on the left, or on the right.
LeftChange(fn, x, h, k) == SignChange(fn, Probe(x, h, -k), Probe(x, h, 1 - k))
RightChange(fn, x, h, k) == SignChange(fn, Probe(x, h, k), Probe(x, h, k - 1))

BracketResult(lo, hi, found, probes, x1, h, maxIter) ==
    [lo |-> lo, hi |-> hi, found |-> found, probes |-> probes,
     seed |-> x1, step |-> h, budget |-> maxIter]

\* The loop over the probe pairs k = 1 .. maxIter stops at the first pair
\* that shows a sign change; within a pair the left probe is tested first.
FirstChange(fn, x, h, maxIter) ==
    LET hits == {k \in 1 .. maxIter : LeftChange(fn, x, h, k) \/ RightChange(fn, x, h, k)}
    IN  IF hits = {} THEN 0 ELSE CHOOSE k \in hits : \A j \in hits : k <= j

BracketSearch(fn, x, h, maxIter) ==
    LET k == FirstChange(fn, x, h, maxIter)
    IN  IF k = 0
        THEN BracketResult(Fin(Probe(x, h, -maxIter)), Fin(Probe(x, h, maxIter)),
                           FALSE, maxIter, Fin(x), Fin(h), maxIter)
        ELSE IF LeftChange(fn, x, h, k)
        THEN BracketResult(Fin(Probe(x, h, -k)), Fin(Probe(x, h, 1 - k)), TRUE,
                           k, Fin(x), Fin(h), maxIter)
        ELSE BracketResult(Fin(Probe(x, h, k - 1)), Fin(Probe(x, h, k)), TRUE,
                           k, Fin(x), Fin(h), maxIter)

\* A step that is not a positive finite number, or a seed that is not
\* finite, cannot be probed: the search fails before its loop.
bracketInterval(fn, x1, h, maxIter) ==
    IF ~(IsFin(x1) /\ IsFin(h) /\ h.v > 0)
    THEN BracketResult(x1, x1, FALSE, 0, x1, h, maxIter)
    ELSE IF FVal(fn, x1.v) = 0
    THEN BracketResult(x1, x1, TRUE, 0, x1, h, maxIter)
    ELSE BracketSearch(fn, x1.v, h.v, maxIter)

(***************************************************************************)
(* Constructors.  Each returns the constructed object (obj, its data       *)
(* members) and the sequence of results of the bracketInterval calls made  *)
(* while constructing it (calls).                                          *)
(***************************************************************************)
SolverBaseCtor(f_, tol_) == [f |-> f_, tol |-> tol_]

\* Faulty variants of the interval test: the comparison reversed, the test
\* dropped, and an end that is an exact root counted as invalid.
IntervalInvalid_Reversed(fn, a, b) == Lt(Mul(Eval(fn, a), Eval(fn, b)), Zero)
IntervalInvalid_Never(fn, a, b) == FALSE
IntervalInvalid_OrZero(fn, a, b) == Ge(Mul(Eval(fn, a), Eval(fn, b)), Zero)

\* if (f(a) * f(b) > 0)
IntervalInvalid(fn, a, b) == Gt(Mul(Eval(fn, a), Eval(fn, b)), Zero)

\* Faulty variant: the search runs with its own default budget, not the
\* caller's.
RepairCall_DefaultBudget(fn, x1, h_interval, maxIter) ==
    bracketInterval(fn, x1, h_interval, DefaultMaxIter)

\* auto result = bracketInterval(f, x1, h_interval, maxIter); the member
\* maxIter is a T::Real and converts to the unsigned int parameter.
RepairCall(fn, x1, h_interval, maxIter) ==
    bracketInterval(fn, x1, h_interval, ToUnsigned(maxIter))

\* Faulty variants of the store: found is not tested; only a receives the
\* sentinel; the two ends are exchanged.
StoreRepair_IgnoreFound(res) == [a |-> res.lo, b |-> res.hi]

StoreRepair_OnlyA(res) ==
    IF res.found
    THEN [a |-> res.lo, b |-> res.hi]
    ELSE [a |-> Neg(NaN), b |-> res.hi]

StoreRepair_Exchanged(res) ==
    IF res.found
    THEN [a |-> res.hi, b |-> res.lo]
    ELSE [a |-> Neg(NaN), b |-> NaN]

\* if (std::get<2>(result)) { a = get<0>; b = get<1>; } else { a = -NaN; b = NaN; }
StoreRepair(res) ==
    IF res.found
    THEN [a |-> res.lo, b |-> res.hi]
    ELSE [a |-> Neg(NaN), b |-> NaN]

SolverWithIntervalCtor(f_, a_, b_, tol_, h_interval_, maxIter_) ==
    LET base == SolverBaseCtor(f_, tol_)
        init == [f |-> base.f, tol |-> base.tol, a |-> a_, b |-> b_,
                 x1 |-> Half(Add(a_, b_)), h_interval |-> h_interval_,
                 maxIter |-> ToReal(maxIter_)]
    IN  IF IntervalInvalid(init.f, init.a, init.b)
        THEN LET res == RepairCall(init.f, init.x1, init.h_interval, init.maxIter)
                 ab == StoreRepair(res)
             IN  [obj |-> [init EXCEPT !.a = ab.a, !.b = ab.b], calls |-> <<res>>]
        ELSE [obj |-> init, calls |-> <<>>]

RegulaFalsiCtor(f_, a_, b_, tol_, tola_, h_interval_, maxIter_) ==
    LET s == SolverWithIntervalCtor(f_, a_, b_, tol_, h_interval_, maxIter_)
    IN  [s EXCEPT !.obj = s.obj @@ [tola |-> tola_]]

BisectionCtor(f_, a_, b_, tol_, h_interval_, maxIter_) ==
    SolverWithIntervalCtor(f_, a_, b_, tol_, h_interval_, maxIter_)

\* Faulty variant: maxIt is initialised from the bracket-search budget.
SecantCtor_MixedBudgets(f_, a_, b_, tol_, tola_, maxIt_, h_interval_, maxIter_) ==
    LET s == SolverWithIntervalCtor(f_, a_, b_, tol_, h_interval_, maxIter_)
    IN  [s EXCEPT !.obj = s.obj @@ [tola |-> tola_, maxIt |-> maxIter_]]

SecantCtor(f_, a_, b_, tol_, tola_, maxIt_, h_interval_, maxIter_) ==
    LET s == SolverWithIntervalCtor(f_, a_, b_, tol_, h_interval_, maxIter_)
    IN  [s EXCEPT !.obj = s.obj @@ [tola |-> tola_, maxIt |-> maxIt_]]

BrentCtor(f_, a_, b_, tol_, maxIt_, h_interval_, maxIter_) ==
    LET s == SolverWithIntervalCtor(f_, a_, b_, tol_, h_interval_, maxIter_)
    IN  [s EXCEPT !.obj = s.obj @@ [maxIt |-> maxIt_]]

NewtonCtor(f_, df_, x0_, tol_, tola_, maxIt_) ==
    LET base == SolverBaseCtor(f_, tol_)
    IN  [obj |-> [f |-> base.f, tol |-> base.tol, df |-> df_, x0 |-> x0_,
                  tola |-> tola_, maxIt |-> maxIt_],
         calls |-> <<>>]

\* A derivative callable: the caller's own, or the closure QuasiNewton builds,
\* [f_, h_](x) { return (f_(x + h_) - f_(x - h_)) / (2 * h_); }
ExactDerivative(fn) == [k |-> "exact", f |-> fn, h |-> Zero]
FiniteDifference(f_, h_) == [k |-> "fd", f |-> f_, h |-> h_]

ApplyDerivative(df, x) ==
    IF df.k = "exact"
    THEN EvalD(df.f, x)
    ELSE Div(Sub(Eval(df.f, Add(x, df.h)), Eval(df.f, Sub(x, df.h))),
             Mul(Two, df.h))

QuasiNewtonCtor(f_, a_, h_, tol_, tola_, maxIt_) ==
    LET n == NewtonCtor(f_, FiniteDifference(f_, h_), a_, tol_, tola_, maxIt_)
    IN  [n EXCEPT !.obj = n.obj @@ [h |-> h_]]

(***************************************************************************)
(* Constructor signatures: parameters and default arguments.               *)
(***************************************************************************)
IntervalKinds == {"RegulaFalsi", "Bisection", "Secant", "Brent"}
NewtonKinds == {"Newton", "QuasiNewton"}

Params(k) ==
    CASE k = "RegulaFalsi" -> {"f_", "a_", "b_", "tol_", "tola_", "h_interval_", "maxIter_"}
      [] k = "Bisection" -> {"f_", "a_", "b_", "tol_", "h_interval_", "maxIter_"}
      [] k = "Secant" -> {"f_", "a_", "b_", "tol_", "tola_", "maxIt_", "h_interval_", "maxIter_"}
      [] k = "Brent" -> {"f_", "a_", "b_", "tol_", "maxIt_", "h_interval_", "maxIter_"}
      [] k = "Newton" -> {"f_", "df_", "x0_", "tol_", "tola_", "maxIt_"}
      [] k = "QuasiNewton" -> {"f_", "a_", "h_", "tol_", "tola_", "maxIt_"}

\* Faulty variant: the defaults of the zero-defaulted interface.
Defaults_Zero(k) ==
    IF k \in IntervalKinds
    THEN [h_interval_ |-> Zero, maxIter_ |-> 0]
    ELSE [p \in {} |-> Zero]

Defaults(k) ==
    IF k \in IntervalKinds
    THEN [h_interval_ |-> Fin(DefaultHInterval), maxIter_ |-> DefaultMaxIter]
    ELSE [p \in {} |-> Zero]

\* The argument lists a call may give: trailing defaulted arguments may be
\* left out, maxIter_ alone or h_interval_ and maxIter_ together.
Supplies(k) ==
    {s \in SUBSET Params(k) :
        /\ Params(k) \ DOMAIN Defaults(k) \subseteq s
        /\ "maxIter_" \in s => "h_interval_" \in s}

(***************************************************************************)
(* Inputs                                                                  *)
(***************************************************************************)
Xs == {Fin(n) : n \in -MaxX .. MaxX}
Hs == {Fin(n) : n \in 0 .. MaxH}
Budgets == 0 .. MaxBudget
Tols == {Two}
Tolas == {Fin(3)}

\* The values an argument may take in a call that supplies the arguments
\* sup: the caller's choice, or the default argument of the signature.
ArgValues(k, sup, p, choices) == IF p \in sup THEN choices ELSE {Defaults(k)[p]}

NoLocals == [none |-> TRUE]
NoResult == [none |-> TRUE]

Init ==
    /\ pc = "init"
    /\ kind = "none"
    /\ args = << >>
    /\ supplied = {}
    /\ m = [none |-> TRUE]
    /\ br = << >>
    /\ loc = NoLocals
    /\ iters = 0
    /\ result = NoResult

Constructed(k, sup, ar, s) ==
    /\ pc' = "constructed"
    /\ kind' = k
    /\ supplied' = sup
    /\ args' = ar
    /\ m' = s.obj
    /\ br' = s.calls
    /\ UNCHANGED <<loc, iters, result>>

ConstructRegulaFalsi ==
    /\ pc = "init"
    /\ \E sup \in Supplies("RegulaFalsi") :
       \E ar \in [f_ : Funs, a_ : Xs, b_ : Xs, tol_ : Tols, tola_ : Tolas,
                  h_interval_ : ArgValues("RegulaFalsi", sup, "h_interval_", Hs),
                  maxIter_ : ArgValues("RegulaFalsi", sup, "maxIter_", Budgets)] :
          LET s == RegulaFalsiCtor(ar.f_, ar.a_, ar.b_, ar.tol_, ar.tola_,
                                   ar.h_interval_, ar.maxIter_)
          IN  Constructed("RegulaFalsi", sup, ar, s)

ConstructBisection ==
    /\ pc = "init"
    /\ \E sup \in Supplies("Bisection") :
       \E ar \in [f_ : Funs, a_ : Xs, b_ : Xs, tol_ : Tols,
                  h_interval_ : ArgValues("Bisection", sup, "h_interval_", Hs),
                  maxIter_ : ArgValues("Bisection", sup, "maxIter_", Budgets)] :
          LET s == BisectionCtor(ar.f_, ar.a_, ar.b_, ar.tol_,
                                 ar.h_interval_, ar.maxIter_)
          IN  Constructed("Bisection", sup, ar, s)

ConstructSecant ==
    /\ pc = "init"
    /\ \E sup \in Supplies("Secant") :
       \E ar \in [f_ : Funs, a_ : Xs, b_ : Xs, tol_ : Tols, tola_ : Tolas,
                  maxIt_ : Budgets,
                  h_interval_ : ArgValues("Secant", sup, "h_interval_", Hs),
                  maxIter_ : ArgValues("Secant", sup, "maxIter_", Budgets)] :
          LET s == SecantCtor(ar.f_, ar.a_, ar.b_, ar.tol_, ar.tola_, ar.maxIt_,
                              ar.h_interval_, ar.maxIter_)
          IN  Constructed("Secant", sup, ar, s)

ConstructBrent ==
    /\ pc = "init"
    /\ \E sup \in Supplies("Brent") :
       \E ar \in [f_ : Funs, a_ : Xs, b_ : Xs, tol_ : Tols, maxIt_ : Budgets,
                  h_interval_ : ArgValues("Brent", sup, "h_interval_", Hs),
                  maxIter_ : ArgValues("Brent", sup, "maxIter_", Budgets)] :
          LET s == BrentCtor(ar.f_, ar.a_, ar.b_, ar.tol_, ar.maxIt_,
                             ar.h_interval_, ar.maxIter_)
          IN  Constructed("Brent", sup, ar, s)

ConstructNewton ==
    /\ pc = "init"
    /\ \E sup \in Supplies("Newton") :
       \E g \in [f_ : Funs, x0_ : Xs, tol_ : Tols, tola_ : Tolas, maxIt_ : Budgets] :
          LET ar == g @@ [df_ |-> ExactDerivative(g.f_)]
              s == NewtonCtor(ar.f_, ar.df_, ar.x0_, ar.tol_, ar.tola_, ar.maxIt_)
          IN  Constructed("Newton", sup, ar, s)

ConstructQuasiNewton ==
    /\ pc = "init"
    /\ \E sup \in Supplies("QuasiNewton") :
       \E ar \in [f_ : Funs, a_ : Xs, h_ : Hs, tol_ : Tols, tola_ : Tolas,
                  maxIt_ : Budgets] :
          LET s == QuasiNewtonCtor(ar.f_, ar.a_, ar.h_, ar.tol_, ar.tola_, ar.maxIt_)
          IN  Constructed("QuasiNewton", sup, ar, s)

(***************************************************************************)
(* solve().  The declaration is virtual T::Real solve(): what it returns   *)
(* is one T::Real.  The loops follow the design (4.3 - 4.8, 7, 8): each    *)
(* interval solver first tests the sentinel the constructor leaves in a    *)
(* and b; a solver with an exhausted budget returns its current estimate,  *)
(* which before any iteration is the midpoint of the bracket (x0 for the   *)
(* Newton family); a vanishing denominator ends the iteration with NaN.    *)
(***************************************************************************)
Sentinel(obj) == IsNaN(obj.a) /\ IsNaN(obj.b)

\* The iteration budget of solve(): maxIt where the class has one, the
\* member maxIter otherwise.
Budget(k, obj) ==
    IF k \in {"Bisection", "RegulaFalsi"} THEN ToUnsigned(obj.maxIter) ELSE obj.maxIt

Midpoint(obj) == Half(Add(obj.a, obj.b))

F(x) == Eval(m.f, x)

\* Brent's three points: b the best estimate, c the other end of the
\* bracket, a the previous best; d and e the last two steps.
BrentOrder(a, b, c) ==
    IF Lt(Abs(Eval(m.f, c)), Abs(Eval(m.f, b)))
    THEN [a |-> b, b |-> c, c |-> b]
    ELSE [a |-> a, b |-> b, c |-> c]

SolveStart ==
    /\ pc = "constructed"
    /\ iters' = 0
    /\ UNCHANGED <<kind, args, supplied, br>>
    /\ IF kind \in IntervalKinds /\ Sentinel(m)
       THEN /\ pc' = "done"
            /\ result' = NaN
            /\ UNCHANGED <<m, loc>>
       ELSE /\ pc' = "solving"
            /\ result' = NoResult
            /\ CASE kind = "Brent" ->
                      LET o == BrentOrder(m.a, m.b, m.a)
                      IN  /\ m' = [m EXCEPT !.a = o.a, !.b = o.b]
                          /\ loc' = [c |-> o.c, d |-> Sub(o.b, o.a), e |-> Sub(o.b, o.a),
                                     est |-> Midpoint(m), conv |-> FALSE, fail |-> FALSE]
                 [] kind \in NewtonKinds ->
                      /\ m' = m
                      /\ loc' = [est |-> m.x0, conv |-> FALSE, fail |-> FALSE]
                 [] OTHER ->
                      /\ m' = m
                      /\ loc' = [est |-> Midpoint(m), conv |-> FALSE, fail |-> FALSE]

\* The loop of solve() runs another iteration.
Continue ==
    /\ iters < Budget(kind, m)
    /\ ~loc.conv
    /\ ~loc.fail
    /\ kind = "Bisection" => ~Lt(Abs(Sub(m.b, m.a)), m.tol)
    /\ kind = "Brent" =>
          ~(\/ Eq(F(m.b), Zero)
            \/ Lt(Abs(Sub(loc.c, m.b)), Half(m.tol)))

Iterated == /\ iters' = iters + 1
            /\ pc' = "solving"
            /\ UNCHANGED <<kind, args, supplied, br, result>>

\* c = (a + b) / 2; the end whose f has the sign of f(c) is replaced by c.
BisectionStep ==
    /\ pc = "solving" /\ kind = "Bisection" /\ Continue
    /\ LET c == Half(Add(m.a, m.b))
       IN  /\ m' = IF Sgn(F(c)) = Sgn(F(m.a))
                   THEN [m EXCEPT !.a = c]
                   ELSE [m EXCEPT !.b = c]
           /\ loc' = [loc EXCEPT !.est = c]
    /\ Iterated

\* The root of the chord through (p, f(p)) and (q, f(q)), from q.
Chord(p, q) == Sub(q, Div(Mul(F(q), Sub(q, p)), Sub(F(q), F(p))))

RegulaFalsiStep ==
    /\ pc = "solving" /\ kind = "RegulaFalsi" /\ Continue
    /\ IF Eq(F(m.a), F(m.b))
       THEN /\ loc' = [loc EXCEPT !.fail = TRUE]
            /\ m' = m
       ELSE LET c == Chord(m.a, m.b)
            IN  /\ m' = IF Sgn(F(c)) = Sgn(F(m.a))
                        THEN [m EXCEPT !.a = c]
                        ELSE [m EXCEPT !.b = c]
                /\ loc' = [loc EXCEPT !.est = c,
                                      !.conv = Lt(Abs(F(c)), m.tola)]
    /\ Iterated

\* a and b hold the two most recent iterates.
SecantStep ==
    /\ pc = "solving" /\ kind = "Secant" /\ Continue
    /\ IF Eq(F(m.a), F(m.b))
       THEN /\ loc' = [loc EXCEPT !.fail = TRUE]
            /\ m' = m
       ELSE LET x == Chord(m.a, m.b)
            IN  /\ m' = [m EXCEPT !.a = m.b, !.b = x]
                /\ loc' = [loc EXCEPT !.est = x,
                                      !.conv = \/ Lt(Abs(F(x)), m.tola)
                                               \/ Lt(Abs(Sub(x, m.b)), m.tol)]
    /\ Iterated

NewtonStep ==
    /\ pc = "solving" /\ kind \in NewtonKinds /\ Continue
    /\ LET x == loc.est
           dfx == ApplyDerivative(m.df, x)
       IN  IF Eq(dfx, Zero)
           THEN loc' = [loc EXCEPT !.fail = TRUE]
           ELSE LET y == Sub(x, Div(F(x), dfx))
                IN  loc' = [loc EXCEPT !.est = y,
                                       !.conv = \/ Lt(Abs(F(y)), m.tola)
                                                \/ Lt(Abs(Sub(y, x)), m.tol)]
    /\ m' = m
    /\ Iterated

\* Inverse quadratic interpolation through (a, fa), (b, fb), (c, fc) at 0.
InverseQuadratic(a, b, c) ==
    LET fa == F(a)
        fb == F(b)
        fc == F(c)
        num == Add(Sub(Mul(Mul(a, Mul(fb, fc)), Sub(fb, fc)),
                       Mul(Mul(b, Mul(fa, fc)), Sub(fa, fc))),
                   Mul(Mul(c, Mul(fa, fb)), Sub(fa, fb)))
        den == Mul(Mul(Sub(fa, fb), Sub(fa, fc)), Sub(fb, fc))
    IN  Div(num, den)

StrictlyBetween(s, p, q) == (Lt(p, s) /\ Lt(s, q)) \/ (Lt(q, s) /\ Lt(s, p))

BrentStep ==
    /\ pc = "solving" /\ kind = "Brent" /\ Continue
    /\ LET a == m.a
           b == m.b
           c == loc.c
           distinct == ~Eq(F(a), F(b)) /\ ~Eq(F(a), F(c)) /\ ~Eq(F(b), F(c))
           s0 == IF distinct THEN InverseQuadratic(a, b, c)
                 ELSE IF ~Eq(F(a), F(b)) THEN Chord(a, b)
                 ELSE NaN
           accept == /\ StrictlyBetween(s0, b, c)
                     /\ Lt(Mul(Two, Abs(Sub(s0, b))), Abs(loc.e))
           s == IF accept THEN s0 ELSE Half(Add(b, c))
           c1 == IF Sgn(F(s)) * Sgn(F(c)) > 0 THEN b ELSE c
           o == BrentOrder(b, s, c1)
       IN  /\ m' = [m EXCEPT !.a = o.a, !.b = o.b]
           /\ loc' = [loc EXCEPT !.c = o.c,
                                 !.d = IF accept THEN Sub(s, b) ELSE Sub(c, b),
                                 !.e = IF accept THEN loc.d ELSE Sub(c, b),
                                 !.est = o.b]
    /\ Iterated

\* The value solve() returns once its loop has ended.
Returned ==
    IF loc.fail THEN NaN
    ELSE IF kind = "Bisection" THEN Midpoint(m)
    ELSE IF kind = "Brent" /\ Budget(kind, m) > 0 THEN m.b
    ELSE loc.est

SolveReturn ==
    /\ pc = "solving" /\ ~Continue
    /\ pc' = "done"
    /\ result' = Returned
    /\ UNCHANGED <<kind, args, supplied, m, br, loc, iters>>

Next ==
    \/ ConstructRegulaFalsi
    \/ ConstructBisection
    \/ ConstructSecant
    \/ ConstructBrent
    \/ ConstructNewton
    \/ ConstructQuasiNewton
    \/ SolveStart
    \/ BisectionStep
    \/ RegulaFalsiStep
    \/ SecantStep
    \/ NewtonStep
    \/ BrentStep
    \/ SolveReturn

Spec == Init /\ [][Next]_vars

(***************************************************************************)
(* Properties                                                              *)
(***************************************************************************)
Interval == kind \in IntervalKinds
Repaired == Len(br) = 1
RepairFailed == Len(br) = 1 /\ ~br[1].found

C2_SentinelShortCircuit ==
    (pc = "done" /\ Interval /\ RepairFailed) => (IsNaN(result) /\ iters = 0)

\* solve() has returned on a solver whose repair failed although its
\* iteration budget was positive.
C2_Witness ==
    /\ pc = "done" /\ Interval /\ RepairFailed
    /\ Sentinel(m) /\ Budget(kind, m) > 0 /\ br[1].probes > 0

\* C3: a step of 0 is rejected at construction: a bracket search with
\* h_interval == 0 fails without probing and leaves the sentinel, and no
\* QuasiNewton with finite-difference step h == 0 comes out of its
\* constructor as a solver whose derivative can be evaluated.
C3_ZeroStepRejected ==
    /\ (Interval /\ Repaired /\ br[1].step = Zero) =>
          /\ br[1].probes = 0
          /\ ~br[1].found
          /\ pc = "constructed" => Sentinel(m)
    /\ ~(kind = "QuasiNewton" /\ pc \in {"constructed", "solving", "done"}
           /\ m.h = Zero)

\* The iteration budget the caller passed was 0.
ZeroBudget ==
    \/ kind \in {"Bisection", "RegulaFalsi"} /\ args.maxIter_ = 0
    \/ kind \in {"Secant", "Brent", "Newton", "QuasiNewton"} /\ args.maxIt_ = 0

\* The estimate before any iteration: the midpoint of the bracket, or the
\* initial point of the Newton family.
InitialEstimate ==
    CASE kind \in IntervalKinds -> Half(Add(m.a, m.b))
      [] kind = "Newton" -> args.x0_
      [] kind = "QuasiNewton" -> args.a_

C5_BrentKeepsBracket ==
    (pc = "solving" /\ kind = "Brent") => Le(Mul(F(m.b), F(loc.c)), Zero)

\* Brent has iterated twice on a bracket that still has a width.
C5_Witness ==
    /\ pc = "solving" /\ kind = "Brent" /\ iters >= 2
    /\ ~Eq(m.b, loc.c)
    /\ Lt(Mul(F(m.b), F(loc.c)), Zero)

\* The width of the bracket Bisection and Brent maintain.
Width ==
    IF kind = "Brent" THEN Abs(Sub(loc.c, m.b)) ELSE Abs(Sub(m.b, m.a))

\* C6: in Bisection::solve() and Brent::solve() the width of the maintained
\* bracket does not increase from one iteration to the next.
C6_WidthNonIncreasing ==
    [][(pc = "solving" /\ pc' = "solving" /\ kind \in {"Bisection", "Brent"})
          => Le(Width', Width)]_vars

\* An iteration has narrowed the bracket.
C6_Witness ==
    /\ pc = "solving" /\ kind \in {"Bisection", "Brent"} /\ iters >= 1
    /\ Repaired = FALSE
    /\ Lt(Width, Abs(Sub(args.b_, args.a_)))

\* C7 as stated: without the caller's values every solver uses a
\* bracket-search step of 0.01 and an iteration budget of 200, and the
\* absolute tolerance, the finite-difference step and the bracket-search
\* step all have defaults.
C7_Original ==
    pc # "init" =>
        /\ "h_interval_" \notin supplied =>
              Interval /\ m.h_interval = Fin(DefaultHInterval)
        /\ "maxIter_" \notin supplied =>
              Interval /\ m.maxIter = Fin(DefaultMaxIter)
        /\ \A p \in {"tola_", "h_", "h_interval_"} \cap Params(kind) :
              p \in DOMAIN Defaults(kind)

\* C7 as amended: an interval-based solver constructed without
\* h_interval_ uses 0.01, one constructed without maxIter_ uses 200, and
\* these two are the only arguments a call can leave out.
C7_Defaults ==
    pc # "init" =>
        /\ Params(kind) \ supplied \subseteq {"h_interval_", "maxIter_"}
        /\ kind \in NewtonKinds => supplied = Params(kind)
        /\ (Interval /\ "h_interval_" \notin supplied) =>
              m.h_interval = Fin(DefaultHInterval)
        /\ (Interval /\ "maxIter_" \notin supplied) =>
              m.maxIter = Fin(DefaultMaxIter)

\* An interval-based solver constructed with neither optional argument.
C7_Witness ==
    /\ pc = "constructed" /\ Interval
    /\ "h_interval_" \notin supplied /\ "maxIter_" \notin supplied

\* C8: after a construction that called the Bracket Finder, (a, b) is
\* the returned (lo, hi) if found, and (NaN, NaN) if not; a (lo, hi)
\* returned with found = false is not stored.
C8_RepairStored ==
    (pc = "constructed" /\ Interval /\ Repaired) =>
        IF br[1].found
        THEN m.a = br[1].lo /\ m.b = br[1].hi
        ELSE IsNaN(m.a) /\ IsNaN(m.b)

\* The Bracket Finder has returned found = false with two distinct probes.
C8_Witness ==
    /\ pc = "constructed" /\ Interval /\ RepairFailed
    /\ IsFin(br[1].lo) /\ IsFin(br[1].hi) /\ br[1].lo # br[1].hi

\* C9: the Bracket Finder is called during construction exactly when
\* f(a_) * f(b_) > 0, and then once; otherwise a and b are the supplied
\* a_ and b_.
C9_RepairOnlyWhenInvalid ==
    (pc # "init" /\ Interval) =>
        /\ Len(br) <= 1
        /\ Len(br) = 1 <=> FVal(args.f_, args.a_.v) * FVal(args.f_, args.b_.v) > 0
        /\ (pc = "constructed" /\ Len(br) = 0) =>
              (m.a = args.a_ /\ m.b = args.b_)

\* An interval with an end that is an exact root was kept as supplied.
C9_Witness ==
    /\ pc = "constructed" /\ Interval /\ Len(br) = 0
    /\ FVal(args.f_, args.a_.v) = 0 /\ FVal(args.f_, args.b_.v) # 0

\* The signs of f at two grid points agree.
SameSign(p, q) == SignOf(FVal(args.f_, p)) = SignOf(FVal(args.f_, q))

====
